---------------------------- MODULE Spec2Model ----------------------------
(***************************************************************************)
(* The ML fraud-detection inference service, services/ml-service/app.py.   *)
(*                                                                         *)
(* State: the two module globals `model` and `model_meta`, the position of *)
(* the process (module just executed, serving, exited), the scoring        *)
(* requests that passed validation and are being scored by a worker        *)
(* thread, and the last response sent.                                     *)
(*                                                                         *)
(* Python's None is the empty sequence <<>>, a present value x is <<x>>.   *)
(***************************************************************************)
EXTENDS Integers, Sequences, FiniteSets, TLC

VARIABLES
    pc,          \* "start" | "serving" | "exited"
    entry,       \* "none" | "main" (run as a script) | "imported" (WSGI host)
    model,       \* global `model`      (app.py:21)
    model_meta,  \* global `model_meta` (app.py:22)
    loads,       \* number of calls of load_model so far
    loadResult,  \* "none" | "ok" | "failed": what load_model returned
    inflight,    \* rows that passed validation and are being scored
    resp,        \* the last response sent, None before the first one
    loaded       \* history: <<model, model_meta>> when serving began

vars == <<pc, entry, model, model_meta, loads, loadResult, inflight, resp,
          loaded>>

-----------------------------------------------------------------------------
(* Bounds of the model. *)

MaxFeatures == 2    \* longest feature-name list in a metadata file
MaxClasses  == 4    \* longest distribution an artifact returns
MaxLabel    == 1    \* largest class label an artifact predicts
MaxInFlight == 2    \* scoring requests being scored at the same time

MaxVecLen == MaxFeatures + 1

None    == <<>>
Some(x) == <<x>>

FeatureNames    == {"amount", "velocity"}
FeatureValues   == {0, 1}
Versions        == {"v1", "v2"}
BlockThresholds == {None, Some(50)}

SeqsUpTo(S, n) == UNION {[1..k -> S] : k \in 0..n}

Injective(f) == \A i, j \in DOMAIN f : f[i] = f[j] => i = j

-----------------------------------------------------------------------------
(* Floating values: a finite mass, or a non-finite value (NaN, +/-Inf).    *)

Fin(v)    == [fin |-> TRUE, val |-> v]
NonFinite == [fin |-> FALSE, val |-> 0]

\* float addition: a non-finite operand makes the sum non-finite
Add(a, b) == IF a.fin /\ b.fin THEN Fin(a.val + b.val) ELSE NonFinite

\* float(p) of a numpy float: the value is kept, NaN stays NaN
PyFloat(p) == IF p.fin THEN Fin(p.val) ELSE NonFinite

RECURSIVE Pow2(_)
Pow2(n) == IF n = 0 THEN 1 ELSE 2 * Pow2(n - 1)

-----------------------------------------------------------------------------
(* The inputs of the process: the artifact file and the metadata file.     *)

\* A distribution of n masses; position i carries mass 2^(i-1), so that any
\* two different sums of entries differ; at most one entry is non-finite.
Distributions ==
    {[i \in 1..n |-> IF i = bad THEN NonFinite ELSE Fin(Pow2(i - 1))] :
        n \in 0..MaxClasses, bad \in 0..MaxClasses}

Labels == 0..MaxLabel

\* An unpickled artifact.  fault says which of its two functions raises on a
\* row it cannot handle (a row with a non-zero entry); on other rows it
\* returns probs and label.
Artifacts ==
    [probs : Distributions, label : Labels, fault : {"none", "proba", "predict"}]

\* The artifact file: None when it is missing or does not unpickle.
ArtifactFiles == {None} \cup {Some(a) : a \in Artifacts}

FeatureLists ==
    {f \in SeqsUpTo(FeatureNames, MaxFeatures) : Len(f) >= 1 /\ Injective(f)}

\* A parsed metadata object; model_version = None is a file without the key.
MetaDocs ==
    [features : FeatureLists,
     model_version : {None} \cup {Some(v) : v \in Versions},
     block_threshold : BlockThresholds]

\* The metadata file: missing, not JSON, or a JSON object.
MetaFiles ==
    {<<"missing">>, <<"malformed">>} \cup {<<"json", d>> : d \in MetaDocs}

\* The feature vectors of the requests: every length up to MaxVecLen, all
\* entries 0 or all entries 1.
Vectors == {[i \in 1..k |-> v] : k \in 0..MaxVecLen, v \in FeatureValues}

BadRow(row) == \E i \in DOMAIN row : row[i] # 0

\* The body of a POST /predict.
Body(kind, features) == [kind |-> kind, features |-> features]

Bodies ==
    {Body("nojson", <<>>), Body("nofield", <<>>)}
        \cup {Body("vector", v) : v \in Vectors}


-----------------------------------------------------------------------------
(* load_model, app.py:24-44.  The two globals are assigned one after the   *)
(* other inside one try block: an assignment made before the exception     *)
(* stays.  The result is the pair of globals and the value returned.       *)

LoadModel(m, meta, artFile, metaFile) ==
    IF artFile = None
    THEN \* open()/pickle.load raised: nothing assigned
         [model |-> m, model_meta |-> meta, ok |-> FALSE]
    ELSE IF metaFile[1] \in {"missing", "malformed"}
    THEN \* model assigned, open()/json.load raised
         [model |-> artFile, model_meta |-> meta, ok |-> FALSE]
    ELSE IF metaFile[2].model_version = None
    THEN \* both assigned, model_meta['model_version'] raised KeyError
         [model |-> artFile, model_meta |-> Some(metaFile[2]), ok |-> FALSE]
    ELSE [model |-> artFile, model_meta |-> Some(metaFile[2]), ok |-> TRUE]

\* the __main__ block: serve after a successful load, exit(1) otherwise
MainServesAnyway(ok) == "serving"

MainNextPc(ok) == IF ok THEN "serving" ELSE "exited"

-----------------------------------------------------------------------------
(* The replies of the three handlers, as functions of the globals.         *)

Reply(status, json) == [status |-> status, json |-> json]

Response(op, body, reply) ==
    [op |-> op, body |-> body, status |-> reply.status, json |-> reply.json]

NoBody == Body("none", <<>>)

\* health, app.py:46-52
\* (a liveness probe that says UP whenever the process answers)
HealthAlwaysUp(m, meta) ==
    Reply(200, [status |-> "UP",
                model_loaded |-> m # None,
                model_version |-> IF meta # None THEN meta[1].model_version
                                  ELSE None])

HealthReply(m, meta) ==
    Reply(200, [status |-> IF m # None THEN "UP" ELSE "DOWN",
                model_loaded |-> m # None,
                model_version |-> IF meta # None THEN meta[1].model_version
                                  ELSE None])

\* get_features, app.py:97-108.  model_meta['model_version'] on a metadata
\* object without the key raises outside any try: the framework answers 500.
FeaturesReply(meta) ==
    IF meta = None
    THEN Reply(503, [error |-> "Metadata not loaded"])
    ELSE IF meta[1].model_version = None
    THEN Reply(500, [error |-> "Internal Server Error"])
    ELSE Reply(200, [features |-> meta[1].features,
                     model_version |-> meta[1].model_version[1],
                     block_threshold |-> meta[1].block_threshold])

\* request.get_json() and data.get('features', []), app.py:60-61
ParseFeatures(body) ==
    IF body.kind = "nojson"
    THEN [raised |-> TRUE, features |-> <<>>]
    ELSE IF body.kind = "nofield"
    THEN [raised |-> FALSE, features |-> <<>>]
    ELSE [raised |-> FALSE, features |-> body.features]

\* the except clause, app.py:93-95
ExceptAsCallerError(cause) == Reply(400, [error |-> cause])

ExceptReply(cause) == Reply(500, [error |-> cause])

\* the length test, app.py:63
OnlyShorter(features, names) == Len(features) < Len(names)

LengthMismatch(features, names) == Len(features) # Len(names)

\* predict up to the length check, app.py:56-67: the reply that ends the
\* request there, or None when the vector goes on to be scored.
ValidateBodyFirst(m, meta, body) ==
    LET parsed == ParseFeatures(body) IN
    IF parsed.raised THEN Some(ExceptReply("bad request body"))
    ELSE IF m = None
    THEN Some(Reply(503, [error |-> "Model not loaded"]))
    ELSE IF meta = None THEN Some(ExceptReply("TypeError"))
    ELSE IF LengthMismatch(parsed.features, meta[1].features)
    THEN Some(Reply(400, [error |-> "feature count mismatch",
                          expected |-> Len(meta[1].features),
                          got |-> Len(parsed.features),
                          expected_features |-> meta[1].features]))
    ELSE None

Validate(m, meta, body) ==
    IF m = None
    THEN Some(Reply(503, [error |-> "Model not loaded"]))
    ELSE LET parsed == ParseFeatures(body) IN
         IF parsed.raised THEN Some(ExceptReply("bad request body"))
         ELSE IF meta = None THEN Some(ExceptReply("TypeError"))
         ELSE IF LengthMismatch(parsed.features, meta[1].features)
         THEN Some(Reply(400, [error |-> "feature count mismatch",
                               expected |-> Len(meta[1].features),
                               got |-> Len(parsed.features),
                               expected_features |-> meta[1].features]))
         ELSE None

\* whether model.predict_proba / model.predict raises on the row
ProbaRaises(art, row)   == art.fault = "proba" /\ BadRow(row)
PredictRaises(art, row) == art.fault = "predict" /\ BadRow(row)

\* the aggregation, app.py:78-82, on a distribution of at least 2 entries
\* (probabilities[1] raises IndexError on a shorter one, see ScoreReply);
\* Python indexes from 0, the sequence from 1
AlwaysBinary(probabilities) == probabilities[2]

FraudProbability(probabilities) ==
    IF Len(probabilities) = 2
    THEN probabilities[2]
    ELSE IF Len(probabilities) > 2
         THEN Add(probabilities[2], probabilities[3])
         ELSE probabilities[2]

\* predict from the array conversion on, app.py:69-95
ScoreReply(m, meta, row) ==
    IF m = None \/ meta = None THEN ExceptReply("AttributeError")
    ELSE LET art == m[1]
             probabilities == art.probs
         IN  IF ProbaRaises(art, row) THEN ExceptReply("predict_proba raised")
             ELSE IF Len(probabilities) < 2 THEN ExceptReply("IndexError")
             ELSE IF PredictRaises(art, row) THEN ExceptReply("predict raised")
             ELSE IF meta[1].model_version = None THEN ExceptReply("KeyError")
             ELSE Reply(200,
                    [fraud_probability |->
                         PyFloat(FraudProbability(probabilities)),
                     prediction |-> art.label,
                     probabilities |->
                         [i \in DOMAIN probabilities |->
                             PyFloat(probabilities[i])],
                     model_version |-> meta[1].model_version[1]])

\* the whole of predict, app.py:54-95
PredictReply(m, meta, body) ==
    IF Validate(m, meta, body) # None
    THEN Validate(m, meta, body)[1]
    ELSE ScoreReply(m, meta, ParseFeatures(body).features)

-----------------------------------------------------------------------------
(* The process.                                                            *)

Init ==
    /\ pc = "start"
    /\ entry = "none"
    /\ model = None
    /\ model_meta = None
    /\ loads = 0
    /\ loadResult = "none"
    /\ inflight = {}
    /\ resp = None
    /\ loaded = <<None, None>>

\* the module run as a script: load_model(), then app.run or exit(1)
RunMainServeFirst ==
    /\ pc = "start"
    /\ pc' = "serving"
    /\ entry' = "main"
    /\ UNCHANGED <<model, model_meta, loads, loadResult, inflight, resp,
                   loaded>>

RunMain ==
    /\ pc = "start"
    /\ \E artFile \in ArtifactFiles, metaFile \in MetaFiles :
          LET r == LoadModel(model, model_meta, artFile, metaFile) IN
          /\ model' = r.model
          /\ model_meta' = r.model_meta
          /\ loadResult' = IF r.ok THEN "ok" ELSE "failed"
          /\ pc' = MainNextPc(r.ok)
          /\ loaded' = <<r.model, r.model_meta>>
    /\ loads' = loads + 1
    /\ entry' = "main"
    /\ UNCHANGED <<inflight, resp>>

\* the module imported by a WSGI host: the __main__ block is skipped and
\* the handlers serve with the globals as the module body left them
Import ==
    /\ pc = "start"
    /\ pc' = "serving"
    /\ entry' = "imported"
    /\ loaded' = <<model, model_meta>>
    /\ UNCHANGED <<model, model_meta, loads, loadResult, inflight, resp>>

Health ==
    /\ pc = "serving"
    /\ resp' = Some(Response("health", NoBody, HealthReply(model, model_meta)))
    /\ UNCHANGED <<pc, entry, model, model_meta, loads, loadResult, inflight,
                   loaded>>

GetFeaturesDropsVersion ==
    /\ pc = "serving"
    /\ resp' = Some(Response("features", NoBody, FeaturesReply(model_meta)))
    /\ model_meta' = IF model_meta = None THEN None
                     ELSE Some([model_meta[1] EXCEPT !.model_version = None])
    /\ UNCHANGED <<pc, entry, model, loads, loadResult, inflight, loaded>>

GetFeatures ==
    /\ pc = "serving"
    /\ resp' = Some(Response("features", NoBody, FeaturesReply(model_meta)))
    /\ UNCHANGED <<pc, entry, model, model_meta, loads, loadResult, inflight,
                   loaded>>

\* a scoring request that ends at or before the length check
PredictReject ==
    /\ pc = "serving"
    /\ \E body \in Bodies :
          /\ Validate(model, model_meta, body) # None
          /\ resp' = Some(Response("predict", body,
                                   Validate(model, model_meta, body)[1]))
    /\ UNCHANGED <<pc, entry, model, model_meta, loads, loadResult, inflight,
                   loaded>>

\* a scoring request that passes the length check; a worker thread holds it
PredictAccept ==
    /\ pc = "serving"
    /\ Cardinality(inflight) < MaxInFlight
    /\ \E body \in Bodies :
          /\ Validate(model, model_meta, body) = None
          /\ ParseFeatures(body).features \notin inflight
          /\ inflight' = inflight \cup {ParseFeatures(body).features}
    /\ UNCHANGED <<pc, entry, model, model_meta, loads, loadResult, resp,
                   loaded>>

\* the worker scores its row and answers
PredictScore ==
    /\ pc = "serving"
    /\ \E row \in inflight :
          /\ resp' = Some(Response("predict", Body("vector", row),
                                   ScoreReply(model, model_meta, row)))
          /\ inflight' = inflight \ {row}
    /\ UNCHANGED <<pc, entry, model, model_meta, loads, loadResult, loaded>>

Next ==
    \/ RunMain
    \/ Import
    \/ Health
    \/ GetFeatures
    \/ PredictReject
    \/ PredictAccept
    \/ PredictScore

Spec == Init /\ [][Next]_vars

\* the process started as a script only
NextMain ==
    \/ RunMain
    \/ Health
    \/ GetFeatures
    \/ PredictReject
    \/ PredictAccept
    \/ PredictScore

SpecMain == Init /\ [][NextMain]_vars

TypeOK ==
    /\ pc \in {"start", "serving", "exited"}
    /\ entry \in {"none", "main", "imported"}
    /\ model \in {None} \cup {Some(a) : a \in Artifacts}
    /\ model_meta \in {None} \cup {Some(d) : d \in MetaDocs}
    /\ loads \in 0..1
    /\ loadResult \in {"none", "ok", "failed"}
    /\ Cardinality(inflight) <= MaxInFlight

-----------------------------------------------------------------------------
(* Vocabulary of the claims.                                               *)

Last == resp[1]

Answered(op) == resp # None /\ Last.op = op

\* the outcome of the error taxonomy a response stands for
Outcome(r) ==
    IF r.status = 200 THEN "Success"
    ELSE IF r.status = 503 THEN "NotReady"
    ELSE IF r.status = 400
         THEN IF "expected_features" \in DOMAIN r.json
              THEN "SchemaMismatch" ELSE "MalformedInput"
    ELSE "PredictionError"

ModelLoaded == model # None /\ model_meta # None

LoadedNames == model_meta[1].features

\* the last response answers a vector that went through the artifact
Scored ==
    /\ Answered("predict")
    /\ ModelLoaded
    /\ Last.body.kind = "vector"
    /\ Len(Last.body.features) = Len(LoadedNames)

ArtifactRaises(art, row) == ProbaRaises(art, row) \/ PredictRaises(art, row)

AllFinite(ps) == \A i \in DOMAIN ps : ps[i].fin

-----------------------------------------------------------------------------
\* C1: a scoring request made while the model is loaded whose vector length
\* differs from the number of loaded feature names (shorter, longer or
\* empty) is answered 400 SchemaMismatch, and expected_features is the
\* loaded feature-name list, in its order.
C1_SchemaMismatch ==
    (/\ Answered("predict")
     /\ ModelLoaded
     /\ Last.body.kind = "vector"
     /\ Len(Last.body.features) # Len(LoadedNames))
    => /\ Last.status = 400
       /\ Outcome(Last) = "SchemaMismatch"
       /\ Last.json.expected_features = LoadedNames

\* a vector longer than a two-name list was refused with the list echoed
C1_Witness ==
    /\ Answered("predict")
    /\ ModelLoaded
    /\ Last.body.kind = "vector"
    /\ Len(LoadedNames) = 2
    /\ Len(Last.body.features) = 3
    /\ Last.status = 400
    /\ Last.json.expected_features = <<"velocity", "amount">>

\* C2: the fraud_probability of every Scoring Result is fixed by the number
\* of entries of the artifact's distribution alone: entry 1 (0-based) for 2
\* entries, entry 1 plus entry 2 for 3 or more; neither the predicted label
\* nor the metadata's threshold enters.
C2_Aggregation ==
    (Answered("predict") /\ Last.status = 200)
    => LET ps == model[1].probs IN
       /\ Len(ps) >= 2
       /\ Len(ps) = 2 => Last.json.fraud_probability = ps[2]
       /\ Len(ps) >= 3 => Last.json.fraud_probability = Add(ps[2], ps[3])

\* a three-class artifact that predicts label 1, under a metadata with a
\* threshold, was scored: 2 + 4 = 6
C2_Witness ==
    /\ Answered("predict")
    /\ Last.status = 200
    /\ Len(model[1].probs) = 3
    /\ model[1].label = 1
    /\ model_meta[1].block_threshold # None
    /\ Last.json.fraud_probability = Fin(6)

C3_WitnessDown ==
    /\ Answered("health")
    /\ loads = 0
    /\ Last.json.status = "DOWN"

\* C4: after a failed load the process is in its failed state and never
\* claims success: it has exited, no health answer says UP or model_loaded,
\* and no scoring request got a Scoring Result.
C4_FailedLoad ==
    loadResult = "failed"
    => /\ pc = "exited"
       /\ ~(Answered("health")
              /\ (Last.json.status = "UP" \/ Last.json.model_loaded))
       /\ ~(Answered("predict") /\ Last.status = 200)

\* a load that failed on the metadata after the artifact was assigned
C4_Witness ==
    /\ loadResult = "failed"
    /\ model # None
    /\ model_meta = None
    /\ pc = "exited"

\* C5: a distribution with a non-finite entry makes scoring fail with a
\* server-side error; no Scoring Result carries a non-finite value.
C5_NonFinite ==
    /\ (Scored /\ ~AllFinite(model[1].probs)) => Last.status = 500
    /\ (Answered("predict") /\ Last.status = 200)
          => /\ Last.json.fraud_probability.fin
             /\ AllFinite(Last.json.probabilities)

\* C6: with the model loaded, a scoring request without a feature vector
\* (no JSON body, or no 'features' field) is answered with MalformedInput,
\* a 4xx outcome that is neither SchemaMismatch nor a server-side error.
C6_MalformedInput ==
    (/\ Answered("predict")
     /\ ModelLoaded
     /\ Last.body.kind \in {"nojson", "nofield"})
    => /\ Last.status = 400
       /\ Outcome(Last) = "MalformedInput"

\* C7: with no model loaded every scoring request is answered 503 "Model
\* not loaded", whatever its body; the feature schema is answered 503
\* exactly when the metadata is not loaded and otherwise carries the
\* metadata's feature names, in their order, and its version.
C7_NotReady ==
    /\ (Answered("predict") /\ model = None)
          => /\ Last.status = 503
             /\ Last.json = [error |-> "Model not loaded"]
    /\ Answered("features")
          => /\ (Last.status = 503) <=> (model_meta = None)
             /\ model_meta # None =>
                   /\ Last.status = 200
                   /\ Last.json.features = model_meta[1].features
                   /\ Some(Last.json.model_version)
                         = model_meta[1].model_version

\* a request without a JSON body was answered NotReady
C7_Witness ==
    /\ Answered("predict")
    /\ model = None
    /\ Last.body.kind = "nojson"
    /\ Outcome(Last) = "NotReady"

\* the feature schema was served from a loaded two-name list
C7_WitnessSchema ==
    /\ Answered("features")
    /\ Last.status = 200
    /\ Last.json.features = <<"velocity", "amount">>

\* C8: a scoring request whose artifact function raises is answered 500
\* inside the request; the step leaves the process serving, the artifact
\* and the metadata as they were and the other requests in flight, so that
\* every handler answers afterwards what it would have answered before.
C8_ExceptionContained ==
    [][\A row \in inflight :
          (/\ inflight' = inflight \ {row}
           /\ model # None
           /\ ArtifactRaises(model[1], row))
          => /\ resp' # None
             /\ resp'[1].op = "predict"
             /\ resp'[1].status = 500
             /\ pc' = "serving"
             /\ model' = model
             /\ model_meta' = model_meta
             /\ HealthReply(model', model_meta')
                   = HealthReply(model, model_meta)
             /\ FeaturesReply(model_meta') = FeaturesReply(model_meta)
             /\ \A body \in Bodies :
                   PredictReply(model', model_meta', body)
                      = PredictReply(model, model_meta, body)]_vars

\* a scoring request ended in the except clause because predict raised
C8_Witness ==
    /\ Answered("predict")
    /\ pc = "serving"
    /\ Last.status = 500
    /\ Last.json.error = "predict raised"
    /\ model[1].fault = "predict"

\* the reply of a handler to a request, from given globals
HandlerReply(m, meta, op, body) ==
    IF op = "health" THEN HealthReply(m, meta)
    ELSE IF op = "features" THEN FeaturesReply(meta)
    ELSE PredictReply(m, meta, body)

\* C9: no request changes the artifact or the metadata: while serving they
\* are what they were when serving began, and every response is the reply
\* of its handler to its request from those; two scorings of one vector,
\* whatever is handled between or beside them, therefore agree.
C9_NoMutation ==
    pc = "serving"
    => /\ model = loaded[1]
       /\ model_meta = loaded[2]
       /\ resp # None =>
             Last = Response(Last.op, Last.body,
                        HandlerReply(loaded[1], loaded[2], Last.op, Last.body))

\* a vector was scored while another scoring request was in flight
C9_Witness ==
    /\ Answered("predict")
    /\ Last.status = 200
    /\ inflight # {}
    /\ Last.body.features \notin inflight

C10_WitnessExit ==
    /\ pc = "exited"
    /\ loads = 1
    /\ resp = None

-----------------------------------------------------------------------------
\* the artifact returned its distribution for the vector of the last
\* response: the request passed validation and neither function raised
Aggregated ==
    /\ Scored
    /\ ~ArtifactRaises(model[1], Last.body.features)

\* C11: a distribution whose cardinality has no aggregation rule (0, 1 or
\* more than 3 entries) makes scoring fail with an error outcome; no
\* Scoring Result is produced for it by a default formula.
C11_UnsupportedShape ==
    (Aggregated /\ Len(model[1].probs) \notin {2, 3})
    => /\ Last.status # 200
       /\ Outcome(Last) \notin {"Success"}

\* the part of C11 the code does meet: a distribution of 0 or 1 entries ends
\* in the except clause (IndexError on probabilities[1]) and is answered 500
C11_TooShortFails ==
    (Aggregated /\ Len(model[1].probs) < 2)
    => /\ Last.status = 500
       /\ Last.json.error = "IndexError"

\* a distribution of one entry was answered 500
C11_TooShortWitness ==
    /\ Aggregated
    /\ Len(model[1].probs) = 1
    /\ Last.status = 500

=============================================================================
